---- MODULE Spec2Model ----
(***************************************************************************)
(* The update_progress background task of api/ragflow_server.py: a loop    *)
(* that runs DocumentService.update_progress under the distributed lock    *)
(* "update_progress", in every server process of a deployment, together    *)
(* with the start-up and shutdown code of the hosting process.             *)
(*                                                                         *)
(* Time is discrete: Tick advances every running timer (the lock's lease,  *)
(* stop_event.wait(6), time.sleep(1)) by one time unit.                    *)
(***************************************************************************)
EXTENDS Integers, FiniteSets, TLC

\* The server processes of the deployment, all sharing one lock backend.
Procs == {"p1", "p2"}

NoOwner == "nobody"

\* RedisDistributedLock("update_progress", timeout=60)
LockTimeout == 60
\* stop_event.wait(6)
SleepInterval == 6
\* time.sleep(1) in signal_handler and in the start-up failure path
GraceDelay == 1
\* late_acquires saturates here (the loop itself never gets past 1)
MaxLate == 2

VARIABLES
    mainpc,        \* position of each process's main thread in __main__
    stop_event,    \* the process-wide threading.Event
    grace,         \* time elapsed in the main thread's time.sleep(1)
    pc,            \* position of each process's update_progress task
    slept,         \* time elapsed in the task's stop_event.wait(6)
    lock_owner,    \* lock backend: who owns the key "update_progress"
    lock_ttl,      \* lock backend: time left before the key expires
    acquired,      \* history: outcome of the iteration's acquire call
    worked,        \* history: outcome of the iteration's work unit
    lapsed,        \* history: the lease expired under the work unit or the wait
    rested,        \* history: a full wait(6) ended since the last work unit began
    roused,        \* history: the flag was set while the task was in wait(6)
    late_acquires  \* history: acquire calls that began with the flag set

vars == <<mainpc, stop_event, grace, pc, slept, lock_owner, lock_ttl,
          acquired, worked, lapsed, rested, roused, late_acquires>>

mainVars == <<mainpc, stop_event, grace>>
lockVars == <<lock_owner, lock_ttl>>

Min(a, b) == IF a < b THEN a ELSE b

\* Positions of the task from which it can still take a step.
Running == {"check", "acquire", "work", "sleep", "finally"}

TypeOK ==
    /\ mainpc \in [Procs -> {"boot", "installed", "submitted", "serving",
                             "sig_grace", "fail_grace", "exited",
                             "killed"}]
    /\ stop_event \in [Procs -> BOOLEAN]
    /\ grace \in [Procs -> 0..GraceDelay]
    /\ pc \in [Procs -> Running \cup {"idle", "done", "dead", "killed"}]
    /\ slept \in [Procs -> 0..SleepInterval]
    /\ lock_owner \in Procs \cup {NoOwner}
    /\ lock_ttl \in 0..LockTimeout
    /\ acquired \in [Procs -> {"none", "true", "false", "raised"}]
    /\ worked \in [Procs -> {"none", "returned", "raised"}]
    /\ lapsed \in [Procs -> BOOLEAN]
    /\ rested \in [Procs -> BOOLEAN]
    /\ roused \in [Procs -> BOOLEAN]
    /\ late_acquires \in [Procs -> 0..MaxLate]

InitWith(deployed) ==
    /\ mainpc = [p \in Procs |-> IF p \in deployed THEN "boot" ELSE "exited"]
    /\ stop_event = [p \in Procs |-> FALSE]
    /\ grace = [p \in Procs |-> 0]
    /\ pc = [p \in Procs |-> "idle"]
    /\ slept = [p \in Procs |-> 0]
    /\ lock_owner = NoOwner
    /\ lock_ttl = 0
    /\ acquired = [p \in Procs |-> "none"]
    /\ worked = [p \in Procs |-> "none"]
    /\ lapsed = [p \in Procs |-> FALSE]
    /\ rested = [p \in Procs |-> TRUE]
    /\ roused = [p \in Procs |-> FALSE]
    /\ late_acquires = [p \in Procs |-> 0]

\* Every process of the deployment has parsed its arguments (line 128).
Init == InitWith(Procs)

\* A deployment of one server: the other process was run with --version.
SoloInit == InitWith({"p1"})

----------------------------------------------------------------------------
(* The lock backend behind RedisDistributedLock.                           *)

\* acquire(): granted only while nobody owns the key; contention, a
\* blocking timeout and an unreachable service make it return false or raise.
AcquireOutcomes ==
    IF lock_owner = NoOwner THEN {"true", "false", "raised"}
                            ELSE {"false", "raised"}

\* The key after acquire() by p with the given outcome: a grant starts a
\* lease of LockTimeout.
LockAfterAcquire(p, outcome) ==
    IF outcome = "true" THEN <<p, LockTimeout>> ELSE <<lock_owner, lock_ttl>>

LockAfterReleaseDeletingKey(p, freed) ==
    IF freed THEN <<NoOwner, 0>> ELSE <<lock_owner, lock_ttl>>
\* The key after release() by p: only the owner's release deletes it; a
\* release that raised may or may not have reached the backend (freed).
LockAfterRelease(p, freed) ==
    IF freed /\ lock_owner = p THEN <<NoOwner, 0>> ELSE <<lock_owner, lock_ttl>>

----------------------------------------------------------------------------
(* update_progress(), lines 49-60.  One definition per decision of the     *)
(* code, then one action per step.                                         *)

LoopConditionInverted(p) == stop_event[p]
LoopConditionIgnoringFlag(p) == TRUE
\* while not stop_event.is_set():
LoopCondition(p) == ~stop_event[p]

AfterAcquireContinueSkipsFinally(outcome) ==
    IF outcome = "true" THEN "work"
    ELSE IF outcome = "false" THEN "check" ELSE "finally"
AfterAcquireAlwaysWork(outcome) == IF outcome = "raised" THEN "finally" ELSE "work"
\* if not redis_lock.acquire(): continue   /  except Exception  /  else line 55
AfterAcquire(outcome) == IF outcome = "true" THEN "work" ELSE "finally"

AfterWorkRaiseSkipsFinally(p, outcome) ==
    IF outcome = "raised" THEN "check"
    ELSE IF stop_event[p] THEN "finally" ELSE "sleep"
\* DocumentService.update_progress() raises: except, then finally.  It
\* returns: stop_event.wait(6) is called, which blocks unless the flag is
\* already set (then it returns at once and the finally clause is next).
AfterWork(p, outcome) ==
    IF outcome = "raised" THEN "finally"
    ELSE IF stop_event[p] THEN "finally" ELSE "sleep"

WaitOverBlind(p) == slept[p] >= SleepInterval
\* stop_event.wait(6) returns when the flag is set or 6 units have passed
WaitOver(p) == stop_event[p] \/ slept[p] >= SleepInterval

\* finally: redis_lock.release() -- an exception raised here leaves the loop
AfterRelease(outcome) == IF outcome = "returned" THEN "check" ELSE "dead"

\* line 51: the loop condition
CheckFlag(p) ==
    /\ pc[p] = "check"
    /\ pc' = [pc EXCEPT ![p] = IF LoopCondition(p) THEN "acquire" ELSE "done"]
    /\ UNCHANGED <<mainVars, slept, lockVars, acquired, worked, lapsed,
                   rested, roused, late_acquires>>

\* line 53: redis_lock.acquire()
Acquire(p) ==
    /\ pc[p] = "acquire"
    /\ \E outcome \in AcquireOutcomes :
        /\ pc' = [pc EXCEPT ![p] = AfterAcquire(outcome)]
        /\ lock_owner' = LockAfterAcquire(p, outcome)[1]
        /\ lock_ttl' = LockAfterAcquire(p, outcome)[2]
        /\ acquired' = [acquired EXCEPT ![p] = outcome]
    /\ lapsed' = [lapsed EXCEPT ![p] = FALSE]
    /\ late_acquires' = [late_acquires EXCEPT ![p] =
                            IF stop_event[p] THEN Min(@ + 1, MaxLate) ELSE @]
    /\ rested' = [rested EXCEPT ![p] = @ /\ pc'[p] # "work"]
    /\ UNCHANGED <<mainVars, slept, worked, roused>>

WorkEndsReleasingFirst(p) ==
    /\ pc[p] = "work"
    /\ \E outcome \in {"returned", "raised"} :
        /\ pc' = [pc EXCEPT ![p] = AfterWork(p, outcome)]
        /\ worked' = [worked EXCEPT ![p] = outcome]
    /\ lock_owner' = LockAfterRelease(p, TRUE)[1]
    /\ lock_ttl' = LockAfterRelease(p, TRUE)[2]
    /\ slept' = [slept EXCEPT ![p] = 0]
    /\ lapsed' = [lapsed EXCEPT ![p] = @ /\ pc'[p] = "sleep"]
    /\ UNCHANGED <<mainVars, acquired, rested, roused, late_acquires>>
\* lines 55-56: DocumentService.update_progress() returns or raises
WorkEnds(p) ==
    /\ pc[p] = "work"
    /\ \E outcome \in {"returned", "raised"} :
        /\ pc' = [pc EXCEPT ![p] = AfterWork(p, outcome)]
        /\ worked' = [worked EXCEPT ![p] = outcome]
    /\ slept' = [slept EXCEPT ![p] = 0]
    /\ lapsed' = [lapsed EXCEPT ![p] = @ /\ pc'[p] = "sleep"]
    /\ UNCHANGED <<mainVars, lockVars, acquired, rested, roused, late_acquires>>

\* line 56: stop_event.wait(6) returns
Wake(p) ==
    /\ pc[p] = "sleep"
    /\ WaitOver(p)
    /\ pc' = [pc EXCEPT ![p] = "finally"]
    /\ rested' = [rested EXCEPT ![p] = slept[p] >= SleepInterval]
    /\ slept' = [slept EXCEPT ![p] = 0]
    /\ lapsed' = [lapsed EXCEPT ![p] = FALSE]
    /\ UNCHANGED <<mainVars, lockVars, acquired, worked, roused, late_acquires>>

\* line 60: redis_lock.release() returns or raises
Release(p) ==
    /\ pc[p] = "finally"
    /\ \E outcome \in {"returned", "raised"}, freed \in BOOLEAN :
        /\ outcome = "returned" => freed
        /\ pc' = [pc EXCEPT ![p] = AfterRelease(outcome)]
        /\ lock_owner' = LockAfterRelease(p, freed)[1]
        /\ lock_ttl' = LockAfterRelease(p, freed)[2]
    /\ acquired' = [acquired EXCEPT ![p] = "none"]
    /\ worked' = [worked EXCEPT ![p] = "none"]
    /\ lapsed' = [lapsed EXCEPT ![p] = FALSE]
    /\ UNCHANGED <<mainVars, slept, rested, roused, late_acquires>>

TaskStep(p) ==
    CheckFlag(p) \/ Acquire(p) \/ WorkEnds(p) \/ Wake(p) \/ Release(p)

----------------------------------------------------------------------------
(* __main__, lines 128-150, and signal_handler, lines 62-66.               *)

SetFlagToggling(p) ==
    /\ stop_event' = [stop_event EXCEPT ![p] = ~@]
    /\ roused' = [roused EXCEPT ![p] = @ \/ (pc[p] = "sleep" /\ ~stop_event[p])]
\* stop_event.set(), as seen by the task
SetFlag(p) ==
    /\ stop_event' = [stop_event EXCEPT ![p] = TRUE]
    /\ roused' = [roused EXCEPT ![p] = @ \/ (pc[p] = "sleep" /\ ~stop_event[p])]

\* The process is gone: the history of its task is dropped.
Forget(p) ==
    /\ acquired' = [acquired EXCEPT ![p] = "none"]
    /\ worked' = [worked EXCEPT ![p] = "none"]
    /\ lapsed' = [lapsed EXCEPT ![p] = FALSE]
    /\ rested' = [rested EXCEPT ![p] = TRUE]
    /\ roused' = [roused EXCEPT ![p] = FALSE]
    /\ late_acquires' = [late_acquires EXCEPT ![p] = 0]

\* lines 129-131: --version prints the version and exits
VersionExit(p) ==
    /\ mainpc[p] = "boot"
    /\ mainpc' = [mainpc EXCEPT ![p] = "exited"]
    /\ UNCHANGED <<stop_event, grace, pc, slept, lockVars, acquired, worked,
                   lapsed, rested, roused, late_acquires>>

\* lines 133-134: signal.signal(SIGINT / SIGTERM, signal_handler)
InstallHandlers(p) ==
    /\ mainpc[p] = "boot"
    /\ mainpc' = [mainpc EXCEPT ![p] = "installed"]
    /\ UNCHANGED <<stop_event, grace, pc, slept, lockVars, acquired, worked,
                   lapsed, rested, roused, late_acquires>>

\* lines 136-137: ThreadPoolExecutor(max_workers=1).submit(update_progress)
SubmitTask(p) ==
    /\ mainpc[p] = "installed"
    /\ mainpc' = [mainpc EXCEPT ![p] = "submitted"]
    /\ pc' = [pc EXCEPT ![p] = "check"]
    /\ UNCHANGED <<stop_event, grace, slept, lockVars, acquired, worked,
                   lapsed, rested, roused, late_acquires>>

StartServerBeforeSubmit(p) ==
    /\ mainpc[p] \in {"installed", "submitted"}
    /\ mainpc' = [mainpc EXCEPT ![p] = "serving"]
    /\ UNCHANGED <<stop_event, grace, pc, slept, lockVars, acquired, worked,
                   lapsed, rested, roused, late_acquires>>
\* lines 141-145: uvicorn.run(...) starts serving
StartServer(p) ==
    /\ mainpc[p] = "submitted"
    /\ mainpc' = [mainpc EXCEPT ![p] = "serving"]
    /\ UNCHANGED <<stop_event, grace, pc, slept, lockVars, acquired, worked,
                   lapsed, rested, roused, late_acquires>>

\* lines 146-149: the try block raised; stop_event.set(); time.sleep(1) begins
ServerFails(p) ==
    /\ mainpc[p] \in {"submitted", "serving"}
    /\ mainpc' = [mainpc EXCEPT ![p] = "fail_grace"]
    /\ SetFlag(p)
    /\ grace' = [grace EXCEPT ![p] = 0]
    /\ UNCHANGED <<pc, slept, lockVars, acquired, worked, lapsed, rested,
                   late_acquires>>

KillWithoutGrace(p) ==
    /\ mainpc[p] = "fail_grace"
    /\ mainpc' = [mainpc EXCEPT ![p] = "killed"]
    /\ pc' = [pc EXCEPT ![p] = IF @ \in Running THEN "killed" ELSE @]
    /\ grace' = [grace EXCEPT ![p] = 0]
    /\ slept' = [slept EXCEPT ![p] = 0]
    /\ Forget(p)
    /\ UNCHANGED <<stop_event, lockVars>>
\* line 150: os.kill(os.getpid(), SIGKILL) once time.sleep(1) is over
Kill(p) ==
    /\ mainpc[p] = "fail_grace"
    /\ grace[p] >= GraceDelay
    /\ mainpc' = [mainpc EXCEPT ![p] = "killed"]
    /\ pc' = [pc EXCEPT ![p] = IF @ \in Running THEN "killed" ELSE @]
    /\ grace' = [grace EXCEPT ![p] = 0]
    /\ slept' = [slept EXCEPT ![p] = 0]
    /\ Forget(p)
    /\ UNCHANGED <<stop_event, lockVars>>

\* lines 62-65: SIGINT or SIGTERM delivered; stop_event.set(); time.sleep(1) begins
Signal(p) ==
    /\ mainpc[p] \in {"installed", "submitted", "serving", "fail_grace"}
    /\ mainpc' = [mainpc EXCEPT ![p] = "sig_grace"]
    /\ SetFlag(p)
    /\ grace' = [grace EXCEPT ![p] = 0]
    /\ UNCHANGED <<pc, slept, lockVars, acquired, worked, lapsed, rested,
                   late_acquires>>

\* line 66: sys.exit(0) once time.sleep(1) is over; the interpreter joins the
\* executor's worker thread, so the process ends, with status 0, only when
\* update_progress has returned or died
SigExit(p) ==
    /\ mainpc[p] = "sig_grace"
    /\ grace[p] >= GraceDelay
    /\ pc[p] \notin Running
    /\ mainpc' = [mainpc EXCEPT ![p] = "exited"]
    /\ grace' = [grace EXCEPT ![p] = 0]
    /\ Forget(p)
    /\ UNCHANGED <<stop_event, pc, slept, lockVars>>

MainStep(p) ==
    \/ VersionExit(p) \/ InstallHandlers(p) \/ SubmitTask(p) \/ StartServer(p)
    \/ ServerFails(p) \/ Kill(p) \/ Signal(p) \/ SigExit(p)

----------------------------------------------------------------------------
(* Passage of one time unit.                                               *)

Timing(p) ==
    \/ pc[p] = "sleep" /\ slept[p] < SleepInterval
    \/ mainpc[p] \in {"sig_grace", "fail_grace"} /\ grace[p] < GraceDelay

Tick ==
    /\ lock_owner # NoOwner \/ \E p \in Procs : Timing(p)
    /\ slept' = [p \in Procs |->
                    IF pc[p] = "sleep" THEN Min(slept[p] + 1, SleepInterval)
                                       ELSE slept[p]]
    /\ grace' = [p \in Procs |->
                    IF mainpc[p] \in {"sig_grace", "fail_grace"}
                    THEN Min(grace[p] + 1, GraceDelay) ELSE grace[p]]
    /\ IF lock_owner # NoOwner /\ lock_ttl <= 1
       THEN /\ lock_owner' = NoOwner
            /\ lock_ttl' = 0
            /\ lapsed' = [lapsed EXCEPT ![lock_owner] =
                              pc[lock_owner] \in {"work", "sleep"}]
       ELSE /\ lock_owner' = lock_owner
            /\ lock_ttl' = IF lock_owner # NoOwner THEN lock_ttl - 1 ELSE lock_ttl
            /\ lapsed' = lapsed
    /\ UNCHANGED <<mainpc, stop_event, pc, acquired, worked, rested, roused,
                   late_acquires>>

----------------------------------------------------------------------------

Next ==
    \/ \E p \in Procs : TaskStep(p)
    \/ \E p \in Procs : MainStep(p)
    \/ Tick

Spec == Init /\ [][Next]_vars

\* One server; its task thread is scheduled fairly, so every acquire call,
\* work unit, wait and release call it starts comes to an end.
FairSpec == SoloInit /\ [][Next]_vars /\ \A p \in Procs : WF_vars(TaskStep(p))

\* One server, with no fairness: the main thread and its task alone.
ServerSpec == SoloInit /\ [][Next]_vars

\* A deployment in which the flag is never set and the lock service is
\* reliable: no signal, no server failure, release() returns, and acquire()
\* is granted whenever the key is absent.
ReliableStep(p) ==
    /\ TaskStep(p)
    /\ pc'[p] # "dead"
    /\ (pc[p] = "acquire" /\ lock_owner = NoOwner) => pc'[p] = "work"

StartupStep(p) == InstallHandlers(p) \/ SubmitTask(p) \/ StartServer(p)

ProgressNext ==
    \/ \E p \in Procs : ReliableStep(p)
    \/ \E p \in Procs : StartupStep(p)
    \/ Tick

\* Two servers, or one; the threads of every server are scheduled fairly and
\* time passes.
ProgressSpec ==
    /\ Init \/ SoloInit
    /\ [][ProgressNext]_vars
    /\ \A p \in Procs : WF_vars(ReliableStep(p)) /\ WF_vars(StartupStep(p))
    /\ WF_vars(Tick)

----------------------------------------------------------------------------
(* Steps of a task, as seen between two states.                            *)

\* p's redis_lock.release() call is made in this step
ReleaseCall(p) == pc[p] = "finally" /\ pc'[p] \in {"check", "dead"}

\* p's work unit starts in this step
WorkStarts(p) == pc[p] = "acquire" /\ pc'[p] = "work"

\* p's loop ends in this step, by its condition or by an exception
LoopEnds(p) == pc[p] \in Running /\ pc'[p] \in {"done", "dead"}

----------------------------------------------------------------------------
(* The claims.                                                             *)

\* C1, as claimed: no two instances are ever both executing the work unit.
C1_MutualExclusion ==
    \A p, q \in Procs : p # q => ~(pc[p] = "work" /\ pc[q] = "work")

\* C1, amended: two instances are both executing the work unit only when the
\* 60-unit lease of one of them has expired while its work unit was running.
C1_MutualExclusionWithinLease ==
    \A p, q \in Procs :
        (p # q /\ pc[p] = "work" /\ pc[q] = "work") => (lapsed[p] \/ lapsed[q])

\* One instance executes the work unit as the owner of the lock while the
\* other is about to call acquire.
C1_Witness ==
    \E p, q \in Procs :
        p # q /\ pc[p] = "work" /\ lock_owner = p /\ pc[q] = "acquire"

\* C2, as claimed: a release call is made only for an acquisition that
\* returned true.
C2_ReleaseOnlyAfterGrant ==
    [][\A p \in Procs : ReleaseCall(p) => acquired[p] = "true"]_vars

\* C2, amended: every acquire call that returned true has had its release call
\* by the time the task is back at the top of its loop or has left the loop
\* (acquired is cleared by the one release call of the iteration), and the
\* release call is made for acquisitions that returned false or raised too.
C2_EveryGrantReleased ==
    \A p \in Procs :
        /\ pc[p] \in {"check", "acquire", "done", "dead"} => acquired[p] = "none"
        /\ pc[p] = "finally" => acquired[p] \in {"true", "false", "raised"}

\* A task is back at the top of its loop after an iteration in which the
\* lock was granted and the work unit ran (no full wait since it began).
C2_Witness ==
    \E p \in Procs : pc[p] = "check" /\ ~rested[p] /\ ~stop_event[p]

\* C3: the work unit runs, and has run, only in an iteration whose acquire
\* call returned true and whose release call has not been made yet.
C3_WorkOnlyUnderGrant ==
    \A p \in Procs :
        /\ pc[p] \in {"work", "sleep"} => acquired[p] = "true"
        /\ worked[p] # "none" => acquired[p] = "true"
        /\ acquired[p] \in {"false", "raised"} => pc[p] = "finally"

\* A task executes the work unit as the owner of the lock.
C3_Witness ==
    \E p \in Procs : pc[p] = "work" /\ acquired[p] = "true" /\ lock_owner = p

\* C4, as claimed: a task at the top of its loop, or one that has left the
\* loop, does not own the lock.
C4_NoLockOutsideIteration ==
    \A p \in Procs : pc[p] \in {"check", "done", "dead"} => lock_owner # p

\* C5: a task whose flag was set during its wait(6) can end the wait at once,
\* whatever time has passed; from then on it is never about to call acquire
\* nor executing the work unit, it has begun no acquire call, and it has made
\* its release call when it is past the finally clause.
C5_RousedTaskLeaves ==
    \A p \in Procs : roused[p] =>
        /\ pc[p] \in {"sleep", "finally", "check", "done", "dead"}
        /\ pc[p] = "sleep" => ENABLED Wake(p)
        /\ late_acquires[p] = 0
        /\ pc[p] \in {"check", "done", "dead"} => acquired[p] = "none"

\* A task roused from its wait before the 6 units were over has left the loop.
C5_Witness ==
    \E p \in Procs : roused[p] /\ pc[p] = "done" /\ ~rested[p]

\* C6, as claimed: once the work unit of an iteration has raised, with the
\* flag unset, no step takes the task out of its loop.
C6_WorkFailureNeverFatal ==
    [][\A p \in Procs :
          (worked[p] = "raised" /\ ~stop_event[p]) => ~LoopEnds(p)]_vars

\* C7, as claimed: no acquire call begins in a state where the flag is set.
C7_NoAcquireOnceFlagSet ==
    \A p \in Procs : late_acquires[p] = 0

\* C7, amended: at most one acquire call of a task begins with the flag set
\* (the call whose loop condition read the flag just before it was set);
\* after that call the task is never about to call acquire again.
C7_AtMostOneLateAcquire ==
    \A p \in Procs :
        /\ late_acquires[p] <= 1
        /\ late_acquires[p] = 1 => pc[p] # "acquire"

\* A task made one acquire call with the flag set and then left the loop.
C7_Witness ==
    \E p \in Procs : late_acquires[p] = 1 /\ pc[p] = "done"

\* C8: a running task whose flag is set eventually leaves its loop.
C8_TerminatesOnceCancelled ==
    \A p \in Procs : (stop_event[p] /\ pc[p] \in Running) ~> (pc[p] \notin Running)

\* The flag was set while the task held the lock, and the task has left the
\* loop by its loop condition.
C8_Witness ==
    \E p \in Procs : stop_event[p] /\ pc[p] = "done" /\ ~rested[p]

\* C9, as claimed: while the flag is unset, no step takes a running task out
\* of its loop.
C9_LockFailureNeverFatal ==
    [][\A p \in Procs : ~stop_event[p] => ~LoopEnds(p)]_vars

\* C10, as claimed: with the flag unset, a work unit starts only if a full
\* wait(6) has ended since the task's previous work unit began.
C10_WorkUnitsASleepApart ==
    [][\A p \in Procs : (WorkStarts(p) /\ ~stop_event[p]) => rested[p]]_vars

\* p's loop-top test of the flag is made in this step
CheckFlagStep(p) == pc[p] = "check" /\ pc'[p] \in {"acquire", "done"}

\* p's redis_lock.acquire() call comes to its end in this step
AcquireCall(p) == pc[p] = "acquire" /\ pc'[p] \in {"work", "finally"}

\* C11: the cancellation flag of a process starts unset, never goes from set
\* back to unset, changes only in a step that enters the signal handler's or
\* the startup-failure path's grace delay, and no step of the task changes it.
C11_FlagMonotonic ==
    /\ \A p \in Procs : ~stop_event[p]
    /\ [][\A p \in Procs :
            /\ stop_event[p] => stop_event'[p]
            /\ stop_event'[p] # stop_event[p] =>
                  /\ mainpc'[p] \in {"sig_grace", "fail_grace"}
                  /\ mainpc'[p] # mainpc[p]
                  /\ pc'[p] = pc[p]]_vars

\* a signal set the flag between a loop-top test and the acquire call, the task saw
\* it still set at its next loop-top test and left, and the grace delay is over
C11_Witness ==
    \E p \in Procs : stop_event[p] /\ mainpc[p] = "sig_grace" /\ pc[p] = "done"
                     /\ late_acquires[p] = 1 /\ grace[p] = GraceDelay

\* C12: the server starts serving only after the task has been submitted, the
\* task is submitted only after the handlers have been installed, each of the
\* three happens at most once, and a task that has been started is never
\* started again.
C12_StartupSequencing ==
    [][\A p \in Procs :
        /\ mainpc'[p] = "serving" => (mainpc[p] \in {"submitted", "serving"}
                                       /\ pc'[p] # "idle")
        /\ mainpc'[p] = "submitted" => mainpc[p] \in {"installed", "submitted"}
        /\ mainpc'[p] = "installed" => mainpc[p] \in {"boot", "installed"}
        /\ (pc[p] = "idle" /\ pc'[p] # "idle") =>
              (mainpc[p] = "installed" /\ mainpc'[p] = "submitted"
               /\ pc'[p] = "check")
        /\ pc[p] # "idle" => pc'[p] # "idle"]_vars

C12_Witness ==
    \E p \in Procs : mainpc[p] = "serving" /\ pc[p] = "work" /\ ~stop_event[p]

\* C13: a process that got past its arguments ends with status 0 only from the
\* signal handler's grace delay and is killed only from the startup-failure
\* path's grace delay; either delay is entered by a step that sets the flag,
\* and the process ends only with the flag set and GraceDelay elapsed.
C13_ShutdownOrdering ==
    [][\A p \in Procs :
        /\ (mainpc'[p] \in {"sig_grace", "fail_grace"} /\ mainpc'[p] # mainpc[p])
              => (stop_event'[p] /\ grace'[p] = 0)
        /\ (mainpc'[p] = "exited" /\ mainpc[p] \notin {"exited", "boot"})
              => (mainpc[p] = "sig_grace" /\ stop_event[p]
                  /\ grace[p] >= GraceDelay)
        /\ (mainpc'[p] = "killed" /\ mainpc[p] # "killed")
              => (mainpc[p] = "fail_grace" /\ stop_event[p]
                  /\ grace[p] >= GraceDelay)]_vars

C13_Witness ==
    \E p \in Procs : mainpc[p] = "killed" /\ pc[p] = "killed" /\ stop_event[p]

\* C14, as claimed: once an acquire call of p has returned false, p does no
\* work unit and no wait, and its step after the release call is the loop-top
\* test of the flag (unless the process is killed first).
C14_DeniedIterationBackToFlagCheck ==
    [][\A p \in Procs :
        acquired[p] = "false" => pc'[p] \in {"finally", "check", "killed"}]_vars

\* C15: a release call made by a task that does not own the lock leaves the
\* lock as it is: same owner, same remaining lease.
C15_NonOwnerReleaseChangesNothing ==
    [][\A p \in Procs :
        (ReleaseCall(p) /\ lock_owner # p) =>
            (lock_owner' = lock_owner /\ lock_ttl' = lock_ttl)]_vars

\* q has owned the lock for some time; since the last tick p's flag was set,
\* p made one more acquire call, which failed, made its release call and
\* left: the lock is still q's
C15_Witness ==
    \E p, q \in Procs :
        /\ p # q /\ lock_owner = q /\ lock_ttl < LockTimeout /\ pc[q] = "work"
        /\ mainpc[p] = "sig_grace" /\ grace[p] = 0
        /\ late_acquires[p] = 1 /\ pc[p] = "done"

\* C16, as claimed: a task that is in its wait after the work unit still holds
\* the lock.
C16_SleepsHoldingLock == \A p \in Procs : pc[p] = "sleep" => lock_owner = p

\* C16, amended: the wait is entered only from a work unit that returned
\* normally under a grant, and during it the task still owns the lock unless
\* its lease has expired meanwhile; a work unit that returned normally is
\* followed by the wait unless the flag is already set; the release call after
\* such a work unit is made only once a full wait is over or the flag is set;
\* and nothing but a work unit leads to the wait, so no wait lies between a
\* release call and the next acquire call.
C16_SleepThenRelease ==
    [][\A p \in Procs :
        /\ pc'[p] = "sleep" =>
              /\ pc[p] \in {"work", "sleep"}
              /\ acquired'[p] = "true" /\ worked'[p] = "returned"
              /\ lock_owner' = p \/ lapsed'[p]
        /\ (pc[p] = "work" /\ pc'[p] = "finally" /\ worked'[p] = "returned")
              => stop_event[p]
        /\ (ReleaseCall(p) /\ worked[p] = "returned")
              => (rested[p] \/ stop_event[p])]_vars

\* a full wait is over, the flag is unset, and the task, still the owner, is
\* about to make its release call
C16_Witness ==
    \E p \in Procs : /\ pc[p] = "finally" /\ worked[p] = "returned"
                     /\ rested[p] /\ ~stop_event[p] /\ lock_owner = p

\* C17: release calls and completed acquire calls of a task pair off.  An
\* acquire call, whatever its outcome, leaves one release call owed; a release
\* call is made only when one is owed and settles it; and at every loop-top
\* test of the flag, and at every new acquire call, none is owed.
C17_OneReleasePerAttempt ==
    [][\A p \in Procs :
        /\ AcquireCall(p) => (acquired[p] = "none" /\ acquired'[p] # "none")
        /\ ReleaseCall(p) => (acquired[p] # "none" /\ acquired'[p] = "none")
        /\ CheckFlagStep(p) => acquired[p] = "none"
        /\ (acquired'[p] # acquired[p] /\ pc'[p] # "killed")
              => (AcquireCall(p) \/ ReleaseCall(p))]_vars

\* after an acquire call begun with the flag set, the task has made its
\* release call and is back at the loop-top test, with nothing owed
C17_Witness ==
    \E p \in Procs : /\ pc[p] = "check" /\ acquired[p] = "none"
                     /\ late_acquires[p] = 1 /\ stop_event[p]

\* C18: with the flag set, a task begins at most one more acquire call and
\* starts at most one more work unit, the one granted by that call; a loop-top
\* test that finds the flag set ends the loop; and a work unit in progress
\* goes on until it returns or raises (or the process is killed): setting the
\* flag leaves the task where it is.
C18_BoundedWorkAfterFlag ==
    [][\A p \in Procs :
        /\ late_acquires'[p] <= 1
        /\ late_acquires'[p] < late_acquires[p]
              => mainpc'[p] \in {"exited", "killed"}
        /\ (WorkStarts(p) /\ stop_event[p])
              => (late_acquires[p] = 0 /\ late_acquires'[p] = 1)
        /\ (CheckFlagStep(p) /\ stop_event[p]) => pc'[p] = "done"
        /\ (pc[p] = "work" /\ stop_event'[p]) =>
              /\ pc'[p] \in {"work", "finally", "killed"}
              /\ pc'[p] = "finally" => worked'[p] \in {"returned", "raised"}]_vars

\* the flag was set between the loop-top test and the acquire call, the call
\* was granted, and the work unit is running with the flag set
C18_Witness ==
    \E p \in Procs : /\ stop_event[p] /\ pc[p] = "work"
                     /\ late_acquires[p] = 1 /\ lock_owner = p

\* C19: in a deployment whose flag is never set, whose lock service grants
\* whenever the lock is free and whose release calls return, with threads
\* scheduled fairly and time passing, work units keep being started: at every
\* moment some instance will later start one.
C19_WorkInfinitelyOften == []<><<\E p \in Procs : WorkStarts(p)>>_vars

\* an instance starts a work unit while the other instance's task, already
\* running, is denied the lock
C19_Witness ==
    \E p, q \in Procs : /\ p # q /\ ~stop_event[p] /\ ~stop_event[q]
                        /\ pc[p] = "work" /\ lock_owner = p /\ ~rested[p]
                        /\ pc[q] = "finally" /\ acquired[q] = "false"
====
